---- MODULE Spec2Model ----
(***************************************************************************)
(* Data versioning of ClimateCore: the JSON version registry, the          *)
(* per-version directories with their parquet artifacts                    *)
(* (src/versioning/data_versioner.py), the relational mirror of the        *)
(* versions (src/database/operations.py) and the processing pipeline that  *)
(* drives them (src/processors/weather_processor.py).                      *)
(***************************************************************************)
EXTENDS Integers, Sequences, FiniteSets, TLC

VARIABLES
    registry,     \* version_registry.json: [versions, latest_version]
    dirs,         \* the version directories under DATA_VERSION_DIR (a set of ids)
    info,         \* <id>/version_info.json of every directory
    files,        \* the artifact files: <<id, filename>> -> content
    db_versions,  \* table data_versions, in insertion order
    cities,       \* table cities (the city_id of every row)
    weather,      \* table weather_data, in insertion order
    daily_weather_stats,  \* table daily_weather_stats, in insertion order
    processed_files,  \* the CSV files of the processed directory (their times)
    next_uuid,    \* how many uuid4() values have been drawn
    clock,        \* the wall clock, in whole seconds
    calls,        \* how many calls and outside events there have been
    last,         \* the call that completed last: [op, args, result, raised]
    document,     \* the bytes of version_registry.json: absent, parsable
                  \* (then registry is what they parse to) or torn
    procs,        \* the processes that share the registry: where each is
                  \* in its call, and the registry it loaded
    scheduler     \* the StorageScheduler: its fields and where it is in store_data

vars == <<registry, dirs, info, files, db_versions, cities, weather,
          daily_weather_stats, processed_files, next_uuid, clock, calls, last,
          document, procs, scheduler>>

-----------------------------------------------------------------------------
(* Bounds of the model *)

MaxCalls == 4      \* calls and outside events in a run

-----------------------------------------------------------------------------
(* Values *)

None == "None"

\* An identifier no uuid4() call ever returned.
Ghost == "ghost"

Put(f, k, v) == [x \in (DOMAIN f) \cup {k} |-> IF x = k THEN v ELSE f[x]]

EmptyMap == [x \in {} |-> None]

\* Cells of a data frame.  A float64 cell is held as the value printed to ten
\* decimal places (v) and the digits beyond them (x); an int64 cell has none.
IntCell(n) == [t |-> "int", v |-> n, x |-> 0]
FloatCell(n, e) == [t |-> "float", v |-> n, x |-> e]

WeatherColumns == <<"city_id", "timestamp", "temperature">>

Row(city, ts, temp, tail) == <<IntCell(city), IntCell(ts), FloatCell(temp, tail)>>

DataFrame(index, rows) == [index |-> index, columns |-> WeatherColumns, rows |-> rows]

\* The row batches handed to the operations: an empty one, and two rows for
\* the same (city, timestamp) under a non-default index.
Batches ==
    { DataFrame("range", <<>>),
      DataFrame("custom", <<Row(1, 1, 15, 0), Row(1, 1, 15, 0)>>) }

\* The frame generate_daily_stats builds (weather_processor.py, lines 184-200),
\* with the first of its statistics: other columns than a weather batch.
ObjectCell(n) == [t |-> "object", v |-> n, x |-> 0]

StatsColumns == <<"date", "city_name", "temperature_min">>

DailyStats ==
    [index |-> "range",
     columns |-> StatsColumns,
     rows |-> <<<<ObjectCell(1), ObjectCell(1), FloatCell(15, 0)>>>>]

DataTypes == {"processed_weather", "daily_stats"}

Descriptions == {None, "snapshot"}

-----------------------------------------------------------------------------
(* The state a call works on, and the calls as functions of it *)

State == [registry |-> registry, dirs |-> dirs, info |-> info, files |-> files,
          db_versions |-> db_versions, cities |-> cities, weather |-> weather,
          daily_weather_stats |-> daily_weather_stats,
          processed_files |-> processed_files, next_uuid |-> next_uuid]

\* str(uuid.uuid4()): a value never returned before.
uuid4(s) == "u" \o ToString(s.next_uuid + 1)

\* DatabaseOperations.create_data_version: one more row, under its own uuid.
\* created_at (the column default, utcnow) is held to the whole second;
\* created_by is left out; the rows are kept as inserted.
create_data_version(s, now, name, description, parent_version_id) ==
    LET version == [id |-> uuid4(s),
                    version_name |-> name,
                    description |-> description,
                    parent_version_id |-> parent_version_id,
                    created_at |-> now,
                    is_active |-> 1]
    IN  [s |-> [s EXCEPT !.db_versions = Append(@, version),
                         !.next_uuid = @ + 1],
         result |-> version]

\* DatabaseOperations.get_latest_version: the active row created last.
\* created_at has microsecond resolution, so it orders rows as they were inserted.
db_get_latest_version(s) ==
    LET active == {i \in DOMAIN s.db_versions : s.db_versions[i].is_active = 1}
    IN  IF active = {} THEN None
        ELSE s.db_versions[CHOOSE i \in active : \A j \in active : j <= i].id

SecondsPerDay == 86400

\* The loop of clean_old_versions, had it deactivated every active row.
Deactivate_IgnoresCutoff(version, cutoff_date) ==
    IF version.is_active = 1
    THEN [version EXCEPT !.is_active = 0]
    ELSE version

\* One row of the loop of clean_old_versions (lines 146-153).
Deactivate(version, cutoff_date) ==
    IF version.created_at < cutoff_date /\ version.is_active = 1
    THEN [version EXCEPT !.is_active = 0]
    ELSE version

\* DatabaseManager.clean_old_versions: the active rows created before the
\* cutoff are deactivated; the number of them is returned.
clean_old_versions(s, now, days_to_keep) ==
    LET cutoff_date == now - days_to_keep * SecondsPerDay
        old_versions == {i \in DOMAIN s.db_versions :
                            /\ s.db_versions[i].created_at < cutoff_date
                            /\ s.db_versions[i].is_active = 1}
    IN  [s |-> [s EXCEPT !.db_versions =
                    [i \in DOMAIN @ |-> Deactivate(@[i], cutoff_date)]],
         result |-> Cardinality(old_versions)]

\* The filter of prune_old_data, had it taken the cutoff itself as well.
Expired_Inclusive(record, cutoff_date) == record.timestamp <= cutoff_date

\* The filter of prune_old_data: WeatherData.timestamp < cutoff_date.
Expired(record, cutoff_date) == record.timestamp < cutoff_date

\* DatabaseManager.prune_old_data: the weather records observed before the
\* cutoff are deleted in one statement; the number of them is returned.
prune_old_data(s, now, days_to_keep) ==
    LET cutoff_date == now - days_to_keep * SecondsPerDay
        kept == SelectSeq(s.weather, LAMBDA record : ~Expired(record, cutoff_date))
        deleted == Len(s.weather) - Len(kept)
    IN  [s |-> [s EXCEPT !.weather = kept],
         result |-> [deleted_records |-> deleted]]

\* DataVersioner._load_registry / get_version_history / get_latest_version
get_version_history(s) == s.registry.versions

get_latest_version(s) == s.registry.latest_version

\* create_version without the default to the latest version.
ResolveParent_NoChaining(reg, parent_version_id) == parent_version_id

\* The parent a new version is recorded with (create_version, lines 65-67).
ResolveParent(reg, parent_version_id) ==
    IF parent_version_id = None /\ reg.versions # <<>>
    THEN reg.latest_version
    ELSE parent_version_id

\* The record with the description left at its default.
VersionRecord_DropsDescription(version_id, name, description, parent_id) ==
    [id |-> version_id,
     name |-> name,
     description |-> None,
     parent_id |-> parent_id,
     data_files |-> <<>>]

\* The record create_version builds (lines 70-81).  created_at and the two
\* directory counts of metadata are left out: no operation reads them.
VersionRecord(version_id, name, description, parent_id) ==
    [id |-> version_id,
     name |-> name,
     description |-> description,
     parent_id |-> parent_id,
     data_files |-> <<>>]

\* A create_version that leaves the latest pointer where it was.
create_version_KeepsLatest(s, now, name, description, parent_version_id) ==
    LET reg == s.registry
        version_id == uuid4(s)
        parent == ResolveParent(reg, parent_version_id)
        version_record == VersionRecord(version_id, name, description, parent)
        s1 == [s EXCEPT !.next_uuid = @ + 1,
                        !.dirs = @ \cup {version_id},
                        !.registry = [versions |-> Append(reg.versions, version_record),
                                      latest_version |-> reg.latest_version],
                        !.info = Put(@, version_id, version_record)]
    IN  [s |-> create_data_version(s1, now, name, description, parent).s,
         result |-> version_id]

\* DataVersioner.create_version
create_version(s, now, name, description, parent_version_id) ==
    LET reg == s.registry
        version_id == uuid4(s)
        parent == ResolveParent(reg, parent_version_id)
        version_record == VersionRecord(version_id, name, description, parent)
        s1 == [s EXCEPT !.next_uuid = @ + 1,
                        !.dirs = @ \cup {version_id},
                        !.registry = [versions |-> Append(reg.versions, version_record),
                                      latest_version |-> version_id],
                        !.info = Put(@, version_id, version_record)]
    IN  [s |-> create_data_version(s1, now, name, description, parent).s,
         result |-> version_id]

\* os.path.join(self.version_dir, version_id, filename)
Path(version_id, filename) == version_id \o "/" \o filename

\* f"{data_type}_{timestamp}.parquet", timestamp = strftime("%Y%m%d_%H%M%S"):
\* the clock to the whole second.
Filename(data_type, now) == data_type \o "_" \o ToString(now) \o ".parquet"

\* dataframe.to_parquet(filepath, index=False): the columns and the rows, not
\* the index.
to_parquet(df) == [readable |-> TRUE, columns |-> df.columns, rows |-> df.rows]

\* pd.read_parquet(filepath) of a readable file: the stored columns and rows
\* under a fresh RangeIndex.
read_parquet(file) == [index |-> "range", columns |-> file.columns, rows |-> file.rows]

\* A file whose bytes are no parquet file: read_parquet raises on it.
Unreadable == [readable |-> FALSE, columns |-> <<>>, rows |-> <<>>]

\* dataframe.to_json(orient='records'): one object per row, column by column,
\* without the index; double_precision is left at its default, so a float is
\* written to ten decimal places (the cell's v) and the digits beyond (x) are
\* not.
to_json(df) ==
    [i \in 1..Len(df.rows) |->
        [j \in 1..Len(df.columns) |->
            <<df.columns[j], df.rows[i][j].t, df.rows[i][j].v>>]]

\* A hash over a serialization that keeps the index.
calculate_data_hash_WithIndex(df) == <<df.index, to_json(df)>>

\* DataVersioner._calculate_data_hash: sha256 of the JSON text (sha256 is
\* taken to be injective, so the text stands for its digest).
calculate_data_hash(df) == to_json(df)

\* The index of the first version with this id, 0 when there is none
\* (add_data_to_version, lines 110-115).
FindVersion(reg, version_id) ==
    LET hits == {i \in DOMAIN reg.versions : reg.versions[i].id = version_id}
    IN  IF hits = {} THEN 0 ELSE CHOOSE i \in hits : \A j \in hits : i <= j

\* The descriptor add_data_to_version appends (lines 133-140), created_at left out.
FileInfo(filename, data_type, df) ==
    [filename |-> filename,
     data_type |-> data_type,
     rows |-> Len(df.rows),
     columns |-> df.columns,
     hash |-> calculate_data_hash(df)]

\* An assignment in place of the append.
AppendFile_Replaces(version, file_info) ==
    [version EXCEPT !.data_files = <<file_info>>]

\* version["data_files"].append(file_info)
AppendFile(version, file_info) ==
    [version EXCEPT !.data_files = Append(@, file_info)]

\* An add_data_to_version that leaves version_info.json as it was.
add_data_to_version_StaleInfo(s, now, version_id, df, data_type) ==
    LET reg == s.registry
        i == FindVersion(reg, version_id)
    IN  IF i = 0 THEN [s |-> s, result |-> None]
        ELSE
        LET filename == Filename(data_type, now)
            filepath == Path(version_id, filename)
        IN  [s |-> [s EXCEPT !.files = Put(@, filepath, to_parquet(df)),
                             !.registry.versions[i].data_files =
                                 Append(@, FileInfo(filename, data_type, df))],
             result |-> filepath]

\* An add_data_to_version that records the descriptor in every version.
add_data_to_version_Broadcast(s, now, version_id, df, data_type) ==
    LET reg == s.registry
        i == FindVersion(reg, version_id)
    IN  IF i = 0 THEN [s |-> s, result |-> None]
        ELSE
        LET filename == Filename(data_type, now)
            filepath == Path(version_id, filename)
            file_info == FileInfo(filename, data_type, df)
            versions == [k \in DOMAIN reg.versions |->
                            [reg.versions[k] EXCEPT !.data_files = Append(@, file_info)]]
        IN  [s |-> [s EXCEPT !.files = Put(@, filepath, to_parquet(df)),
                             !.registry.versions = versions,
                             !.info = [id \in DOMAIN @ |->
                                          versions[FindVersion(reg, id)]]],
             result |-> filepath]

\* DataVersioner.add_data_to_version
add_data_to_version(s, now, version_id, df, data_type) ==
    LET reg == s.registry
        i == FindVersion(reg, version_id)
    IN  IF i = 0 THEN [s |-> s, result |-> None]
        ELSE
        LET filename == Filename(data_type, now)
            filepath == Path(version_id, filename)
            version == AppendFile(reg.versions[i], FileInfo(filename, data_type, df))
        IN  [s |-> [s EXCEPT !.files = Put(@, filepath, to_parquet(df)),
                             !.registry.versions[i] = version,
                             !.info = Put(@, version_id, version)],
             result |-> filepath]

\* pd.DataFrame(): no columns and no rows.
EmptyFrame == [index |-> "range", columns |-> <<>>, rows |-> <<>>]

\* A selection that does not look at the data type.
SelectFiles_IgnoresKind(data_files, data_type) == data_files

\* The descriptors get_version_data loads (lines 175-177); `if data_type:`
\* is false for None and for the empty string.
SelectFiles(data_files, data_type) ==
    IF data_type \in {None, ""} THEN data_files
    ELSE SelectSeq(data_files, LAMBDA f : f.data_type = data_type)

\* The loop of get_version_data (lines 183-190): the frames of the files that
\* are there, in descriptor order; a descriptor without its file is skipped
\* with a warning, and read_parquet raises on a file that is no parquet file.
RECURSIVE LoadFiles(_, _, _, _, _)
LoadFiles(s, version_id, data_files, i, dfs) ==
    IF i > Len(data_files) THEN [dfs |-> dfs, raised |-> None]
    ELSE
    LET filepath == Path(version_id, data_files[i].filename)
    IN  IF filepath \notin DOMAIN s.files
        THEN LoadFiles(s, version_id, data_files, i + 1, dfs)
        ELSE IF ~s.files[filepath].readable
        THEN [dfs |-> dfs, raised |-> "ArrowInvalid"]
        ELSE LoadFiles(s, version_id, data_files, i + 1,
                       Append(dfs, read_parquet(s.files[filepath])))

\* The columns of pd.concat (join='outer', sort=False): those of the first
\* frame, then the new ones of each later frame.
RECURSIVE UnionColumns(_, _, _)
UnionColumns(dfs, i, columns) ==
    IF i > Len(dfs) THEN columns
    ELSE UnionColumns(dfs, i + 1,
             columns \o SelectSeq(dfs[i].columns,
                            LAMBDA c : \A j \in DOMAIN columns : columns[j] # c))

NaN == [t |-> "float", v |-> -1, x |-> -1]

\* The frames that hold rows and lack this column.
Lacking(dfs, c) ==
    {i \in DOMAIN dfs : dfs[i].rows # <<>> /\ \A j \in DOMAIN dfs[i].columns :
                                                   dfs[i].columns[j] # c}

\* A row of one frame under the columns of the result: NaN where the frame
\* has no such column, and an int64 column that receives a NaN becomes float64.
Reindex(df, row, columns, dfs) ==
    [k \in DOMAIN columns |->
        LET at == {j \in DOMAIN df.columns : df.columns[j] = columns[k]}
        IN  IF at = {} THEN NaN
            ELSE LET cell == row[CHOOSE j \in at : TRUE]
                 IN  IF cell.t = "int" /\ Lacking(dfs, columns[k]) # {}
                     THEN [cell EXCEPT !.t = "float"]
                     ELSE cell]

RECURSIVE ConcatRows(_, _, _)
ConcatRows(dfs, i, columns) ==
    IF i > Len(dfs) THEN <<>>
    ELSE [r \in DOMAIN dfs[i].rows |-> Reindex(dfs[i], dfs[i].rows[r], columns, dfs)]
         \o ConcatRows(dfs, i + 1, columns)

\* A concatenation that keeps the first frame only.
concat_FirstOnly(dfs) == dfs[1]

\* pd.concat(dfs, ignore_index=True) of at least one frame: the rows of the
\* frames in order under a fresh RangeIndex; no frame is refused for its
\* columns.
concat(dfs) ==
    LET columns == UnionColumns(dfs, 1, <<>>)
    IN  [index |-> "range", columns |-> columns, rows |-> ConcatRows(dfs, 1, columns)]

\* A load that goes on to the artifacts of the parent version.
get_version_data_WithParent(s, version_id, data_type) ==
    IF version_id \notin s.dirs THEN [result |-> EmptyFrame, raised |-> None]
    ELSE
    LET parent == s.info[version_id].parent_id
        own == LoadFiles(s, version_id,
                         SelectFiles(s.info[version_id].data_files, data_type), 1, <<>>)
        inherited == IF parent \in s.dirs
                     THEN LoadFiles(s, parent,
                              SelectFiles(s.info[parent].data_files, data_type), 1, <<>>)
                     ELSE [dfs |-> <<>>, raised |-> None]
        dfs == own.dfs \o inherited.dfs
    IN  IF own.raised # None THEN [result |-> None, raised |-> own.raised]
        ELSE IF dfs = <<>> THEN [result |-> EmptyFrame, raised |-> None]
        ELSE [result |-> concat(dfs), raised |-> None]

\* DataVersioner.get_version_data: the frame returned, or what was raised.
get_version_data(s, version_id, data_type) ==
    IF version_id \notin s.dirs THEN [result |-> EmptyFrame, raised |-> None]
    ELSE
    LET data_files == SelectFiles(s.info[version_id].data_files, data_type)
    IN  IF data_files = <<>> THEN [result |-> EmptyFrame, raised |-> None]
        ELSE
        LET loaded == LoadFiles(s, version_id, data_files, 1, <<>>)
        IN  IF loaded.raised # None THEN [result |-> None, raised |-> loaded.raised]
            ELSE IF loaded.dfs = <<>> THEN [result |-> EmptyFrame, raised |-> None]
            ELSE [result |-> concat(loaded.dfs), raised |-> None]

\* A missing file counted as an invalid one as well.
MissingEntry_AlsoInvalid(file_info, checked) ==
    [checked EXCEPT
        !.missing_files = @ + 1,
        !.files_invalid = @ + 1,
        !.details = Append(@, [filename |-> file_info.filename,
                               status |-> "missing",
                               error |-> "File not found"])]

\* The file is not there (lines 235-242).
MissingEntry(file_info, checked) ==
    [checked EXCEPT
        !.missing_files = @ + 1,
        !.details = Append(@, [filename |-> file_info.filename,
                               status |-> "missing",
                               error |-> "File not found"])]

\* Reading the file raised (lines 265-271).
ErrorEntry(file_info, checked) ==
    [checked EXCEPT
        !.files_invalid = @ + 1,
        !.details = Append(@, [filename |-> file_info.filename,
                               status |-> "error",
                               error |-> "read_parquet"])]

\* The file is there: load it and compare the hashes (lines 245-271).
LoadAndCheck(file, file_info, checked) ==
    IF ~file.readable THEN ErrorEntry(file_info, checked)
    ELSE
    LET df == read_parquet(file)
        current_hash == calculate_data_hash(df)
    IN  IF current_hash = file_info.hash
        THEN [checked EXCEPT
                !.files_valid = @ + 1,
                !.details = Append(@, [filename |-> file_info.filename,
                                       status |-> "valid",
                                       rows |-> Len(df.rows)])]
        ELSE [checked EXCEPT
                !.files_invalid = @ + 1,
                !.details = Append(@, [filename |-> file_info.filename,
                                       status |-> "invalid",
                                       error |-> "Hash mismatch",
                                       expected_hash |-> file_info.hash,
                                       actual_hash |-> current_hash])]

\* The loop without its os.path.exists test: opening the absent file raises
\* inside the try block.
VerifyFile_NoExistsTest(s, version_id, file_info, results) ==
    LET filepath == Path(version_id, file_info.filename)
        checked == [results EXCEPT !.files_checked = @ + 1]
    IN  IF filepath \notin DOMAIN s.files
        THEN ErrorEntry(file_info, checked)
        ELSE LoadAndCheck(s.files[filepath], file_info, checked)

\* One turn of the loop of verify_version_integrity (lines 231-271).
VerifyFile(s, version_id, file_info, results) ==
    LET filepath == Path(version_id, file_info.filename)
        checked == [results EXCEPT !.files_checked = @ + 1]
    IN  IF filepath \notin DOMAIN s.files
        THEN MissingEntry(file_info, checked)
        ELSE LoadAndCheck(s.files[filepath], file_info, checked)

\* A loop that the first artifact failure ends: nothing is caught, and the
\* descriptors after the failing one are not examined.
RECURSIVE VerifyLoop_StopsAtFailure(_, _, _, _, _)
VerifyLoop_StopsAtFailure(s, version_id, data_files, i, results) ==
    IF i > Len(data_files) THEN results
    ELSE
    LET turn == VerifyFile(s, version_id, data_files[i], results)
    IN  IF turn.details[Len(turn.details)].status \in {"missing", "error"}
        THEN results
        ELSE VerifyLoop_StopsAtFailure(s, version_id, data_files, i + 1, turn)

\* for file_info in version_info["data_files"] (line 231)
RECURSIVE VerifyLoop(_, _, _, _, _)
VerifyLoop(s, version_id, data_files, i, results) ==
    IF i > Len(data_files) THEN results
    ELSE VerifyLoop(s, version_id, data_files, i + 1,
                    VerifyFile(s, version_id, data_files[i], results))

\* An overall result that looks at the invalid files only.
OverallValid_IgnoresMissing(results) == results.files_invalid = 0

\* results["valid"] (line 273)
OverallValid(results) == results.files_invalid = 0 /\ results.missing_files = 0

\* DataVersioner.verify_version_integrity
verify_version_integrity(s, version_id) ==
    IF version_id \notin s.dirs
    THEN [valid |-> FALSE, error |-> "Version not found"]
    ELSE
    LET version_info == s.info[version_id]
        results == VerifyLoop(s, version_id, version_info.data_files, 1,
                       [version_id |-> version_id,
                        version_name |-> version_info.name,
                        files_checked |-> 0,
                        files_valid |-> 0,
                        files_invalid |-> 0,
                        missing_files |-> 0,
                        details |-> <<>>])
    IN  [version_id |-> results.version_id,
         version_name |-> results.version_name,
         files_checked |-> results.files_checked,
         files_valid |-> results.files_valid,
         files_invalid |-> results.files_invalid,
         missing_files |-> results.missing_files,
         details |-> results.details,
         valid |-> OverallValid(results)]

\* A walk that stops without a word at a version it has seen.
RECURSIVE AncestorWalk_StopsQuietly(_, _, _, _)
AncestorWalk_StopsQuietly(reg, version_id, seen, acc) ==
    LET i == FindVersion(reg, version_id)
        parent == IF i = 0 THEN None ELSE reg.versions[i].parent_id
    IN  IF parent = None \/ parent \in seen
        THEN [result |-> acc, raised |-> None, hops |-> Len(acc)]
        ELSE AncestorWalk_StopsQuietly(reg, parent, seen \cup {parent},
                                       Append(acc, parent))

\* The walk along the parent pointers: each hop appends the parent reached;
\* it ends at a version without a parent (or at an id that is no version of
\* the registry) and fails when a hop leads to a version already visited.
RECURSIVE AncestorWalk(_, _, _, _)
AncestorWalk(reg, version_id, seen, acc) ==
    LET i == FindVersion(reg, version_id)
        parent == IF i = 0 THEN None ELSE reg.versions[i].parent_id
    IN  IF parent = None
        THEN [result |-> acc, raised |-> None, hops |-> Len(acc)]
        ELSE IF parent \in seen
        THEN [result |-> <<>>, raised |-> "LineageCycleError", hops |-> Len(acc) + 1]
        ELSE AncestorWalk(reg, parent, seen \cup {parent}, Append(acc, parent))

\* ancestors(version_id): the ids from the parent to the root.
ancestors(reg, version_id) == AncestorWalk(reg, version_id, {version_id}, <<>>)

\* session.commit(): the pending rows reach the table.
Commit(acc) == [acc EXCEPT !.weather = @ \o acc.pending, !.pending = <<>>]

\* session.rollback() in the except clause (lines 112-114): what the session
\* holds uncommitted is dropped.
Rollback(acc) == [acc EXCEPT !.pending = <<>>]

\* A record that lacks a key WeatherData(...) reads (lines 83-103): building
\* the row raises KeyError.
Incomplete(data) == Len(data) < Len(WeatherColumns)

\* One turn of the loop of store_weather_data (lines 67-114).  The session is
\* made with autoflush=False (connection.py, line 21), so the query for an
\* existing row sees the table and not the rows still pending in the session;
\* get_or_create_city commits when it adds a city.
StoreRecord(acc, data, version_id) ==
    LET city_id == data[1].v
        timestamp == data[2].v
        a1 == IF city_id \in acc.cities THEN acc
              ELSE Commit([acc EXCEPT !.cities = @ \cup {city_id}])
        existing == \E i \in DOMAIN a1.weather :
                        /\ a1.weather[i].city_id = city_id
                        /\ a1.weather[i].timestamp = timestamp
    IN  IF existing THEN a1
        ELSE IF Incomplete(data) THEN Rollback(a1)
        ELSE
        LET a2 == [a1 EXCEPT
                     !.pending = Append(@, [city_id |-> city_id,
                                            timestamp |-> timestamp,
                                            version_id |-> version_id]),
                     !.inserted_count = @ + 1]
        IN  IF a2.inserted_count % 100 = 0 THEN Commit(a2) ELSE a2

RECURSIVE StoreLoop(_, _, _, _)
StoreLoop(acc, weather_data, i, version_id) ==
    IF i > Len(weather_data) THEN acc
    ELSE StoreLoop(StoreRecord(acc, weather_data[i], version_id),
                   weather_data, i + 1, version_id)

\* DatabaseOperations.store_weather_data
store_weather_data(s, weather_data, version_id) ==
    LET acc == Commit(StoreLoop([cities |-> s.cities, weather |-> s.weather,
                                 pending |-> <<>>, inserted_count |-> 0],
                                weather_data, 1, version_id))
    IN  [s |-> [s EXCEPT !.cities = acc.cities, !.weather = acc.weather],
         result |-> acc.inserted_count]

\* WeatherProcessor._store_in_database with ENABLE_VERSIONING (the default).
store_in_database(s, now, df) ==
    IF df.rows = <<>> THEN [s |-> s, result |-> None]
    ELSE
    LET version_name == "weather_data_" \o ToString(now)
        description == "collected_at_" \o ToString(now)
        parent_id == db_get_latest_version(s)
        created == create_data_version(s, now, version_name, description, parent_id)
        version_id == created.result.id
        fs == create_version(created.s, now, version_name, description, parent_id)
        added == add_data_to_version(fs.s, now, version_id, df, "processed_weather")
        stored == store_weather_data(added.s, df.rows, version_id)
    IN  [s |-> stored.s, result |-> version_id]

\* df['timestamp'].dt.date: the day a timestamp falls on.
DateOf(timestamp) == timestamp \div SecondsPerDay

\* The keys of df.groupby(['date', 'city_name']).  A city goes by its city_id
\* in this model, in the frames and in table cities alike.
GroupKeys(rows) ==
    {<<DateOf(rows[i][2].v), rows[i][1].v>> : i \in DOMAIN rows}

KeyBefore(a, b) == a[1] < b[1] \/ (a[1] = b[1] /\ a[2] <= b[2])

\* ('temperature', 'min') of one group.
GroupMin(rows, key) ==
    LET group == {i \in DOMAIN rows :
                     <<DateOf(rows[i][2].v), rows[i][1].v>> = key}
        least == CHOOSE i \in group : \A j \in group :
                     \/ rows[i][3].v < rows[j][3].v
                     \/ rows[i][3].v = rows[j][3].v /\ rows[i][3].x <= rows[j][3].x
    IN  FloatCell(rows[least][3].v, rows[least][3].x)

\* The rows of the grouped frame, in the order of the keys.
RECURSIVE GroupRows(_, _)
GroupRows(rows, keys) ==
    IF keys = {} THEN <<>>
    ELSE LET key == CHOOSE a \in keys : \A b \in keys : KeyBefore(a, b)
         IN  <<<<ObjectCell(key[1]), ObjectCell(key[2]), GroupMin(rows, key)>>>>
                 \o GroupRows(rows, keys \ {key})

\* The frame generate_daily_stats builds from a batch (lines 178-200).
daily_stats_frame(df) ==
    [index |-> "range",
     columns |-> StatsColumns,
     rows |-> GroupRows(df.rows, GroupKeys(df.rows))]

\* One turn of the loop of store_daily_stats (lines 126-184).  A frame has one
\* row for a (date, city), so a row never meets a row of its own frame.
StoreStat(acc, row, version_id) ==
    LET stat_date == row[1].v
        city_id == row[2].v
        existing == {i \in DOMAIN acc.table :
                        /\ acc.table[i].city_id = city_id
                        /\ acc.table[i].date = stat_date}
    IN  IF city_id \notin acc.cities THEN acc
        ELSE IF existing # {}
        THEN LET i == CHOOSE i \in existing : \A j \in existing : i <= j
             IN  [acc EXCEPT !.table[i].temperature_min = row[3],
                             !.table[i].version_id = version_id]
        ELSE [acc EXCEPT !.table = Append(@, [city_id |-> city_id,
                                              date |-> stat_date,
                                              temperature_min |-> row[3],
                                              version_id |-> version_id]),
                         !.inserted_count = @ + 1]

RECURSIVE StatLoop(_, _, _, _)
StatLoop(acc, stats_data, i, version_id) ==
    IF i > Len(stats_data) THEN acc
    ELSE StatLoop(StoreStat(acc, stats_data[i], version_id),
                  stats_data, i + 1, version_id)

\* DatabaseOperations.store_daily_stats
store_daily_stats(s, stats_data, version_id) ==
    LET acc == StatLoop([cities |-> s.cities, table |-> s.daily_weather_stats,
                         inserted_count |-> 0],
                        stats_data, 1, version_id)
    IN  [s |-> [s EXCEPT !.daily_weather_stats = acc.table],
         result |-> acc.inserted_count]

\* WeatherProcessor.generate_daily_stats on a batch, with ENABLE_VERSIONING.
generate_daily_stats(s, now, df) ==
    LET daily_stats == daily_stats_frame(df)
        latest_version == db_get_latest_version(s)
        version_id == IF latest_version # None THEN latest_version ELSE "current"
        stored == store_daily_stats(s, daily_stats.rows, version_id)
        added == add_data_to_version(stored.s, now, version_id, daily_stats,
                                     "daily_stats")
    IN  [s |-> added.s, result |-> daily_stats]

\* run_processor (lines 248-255): process_recent_data writes the batch to
\* processed_weather_<now>.csv (lines 95-101; a file goes by its time here)
\* and stores it, then its statistics are stored.
run_processor(s, now, df) ==
    IF df.rows = <<>> THEN [s |-> s, result |-> df]
    ELSE LET written == [s EXCEPT !.processed_files = @ \cup {now}]
             stored == store_in_database(written, now, df)
             stats == generate_daily_stats(stored.s, now, df)
         IN  [s |-> stats.s, result |-> df]

\* datetime.min, before every time of the clock.
DatetimeMin == -1

\* StorageScheduler.get_new_files: the files modified after the time the
\* scheduler remembers.
get_new_files(s, last_processed_time) ==
    {f \in s.processed_files : f > last_processed_time}

\* The loop of store_data (lines 75-93) over the files get_new_files
\* returned, here in the order of their names: the records of a file, then
\* their statistics.  A file holds the batch of its time.
RECURSIVE StoreFiles(_, _, _)
StoreFiles(s, new_files, version_id) ==
    IF new_files = {} THEN s
    ELSE LET file_path == CHOOSE f \in new_files : \A g \in new_files : f <= g
             df == DataFrame("range", <<Row(1, file_path, 15, 0),
                                        Row(1, file_path + 1, 14, 0)>>)
             stored == store_weather_data(s, df.rows, version_id)
             stats == store_daily_stats(stored.s, daily_stats_frame(df).rows,
                                        version_id)
         IN  StoreFiles(stats.s, new_files \ {file_path}, version_id)

\* StorageScheduler.store_data from line 64 on, with the files of line 58.
store_data(s, now, new_files) ==
    LET version == create_data_version(s, now, "auto_" \o ToString(now),
                                       "Automatically created version", None)
    IN  [s |-> StoreFiles(version.s, new_files, version.result.id),
         result |-> None]

-----------------------------------------------------------------------------
(* The state machine *)

\* StorageScheduler(): nothing processed yet, no store_data under way.  seen
\* collects the files get_new_files has returned so far.
Stopped ==
    [pc |-> "idle", last_processed_time |-> DatetimeMin, new_files |-> {}, seen |-> {}]

\* The processes that work on one version directory.
Procs == {"p1", "p2"}

\* A process between two calls of the versioner it has constructed.
Idle == [pc |-> "idle", op |-> None, registry |-> [versions |-> <<>>, latest_version |-> None],
         version_id |-> None, df |-> DataFrame("range", <<>>),
         data_type |-> None, filepath |-> None, stale |-> FALSE]

\* DataVersioner.__init__ on a fresh directory, init_db on a fresh database.
Init ==
    /\ document = "parsable"
    /\ procs = [p \in Procs |-> Idle]
    /\ registry = [versions |-> <<>>, latest_version |-> None]
    /\ dirs = {}
    /\ info = EmptyMap
    /\ files = EmptyMap
    /\ db_versions = <<>>
    /\ cities = {}
    /\ weather = <<>>
    /\ daily_weather_stats = <<>>
    /\ processed_files = {}
    /\ scheduler = Stopped
    /\ next_uuid = 0
    /\ clock = 0
    /\ calls = 0
    /\ last = [op |-> "init", args |-> <<>>, result |-> None, raised |-> None]

Become(s) ==
    /\ registry' = s.registry
    /\ dirs' = s.dirs
    /\ info' = s.info
    /\ files' = s.files
    /\ db_versions' = s.db_versions
    /\ cities' = s.cities
    /\ weather' = s.weather
    /\ daily_weather_stats' = s.daily_weather_stats
    /\ processed_files' = s.processed_files
    /\ next_uuid' = s.next_uuid

\* The call returns; none of the calls modelled here has a raise statement,
\* and their file and database accesses are taken to succeed.
Returned(op, args, result) ==
    /\ calls < MaxCalls
    /\ calls' = calls + 1
    /\ last' = [op |-> op, args |-> args, result |-> result, raised |-> None]
    /\ UNCHANGED <<document, procs, scheduler>>

\* The identifiers a caller passes: the id of a version of the registry, or
\* one that is none (Ghost; the ids of the data_versions rows behave like it).
KnownIds == {registry.versions[i].id : i \in DOMAIN registry.versions} \cup {Ghost}

CreateVersion ==
    \E description \in Descriptions, parent_version_id \in KnownIds \cup {None} :
        /\ LET r == create_version(State, clock, "manual", description, parent_version_id)
           IN  /\ Become(r.s)
               /\ Returned("create_version",
                           [name |-> "manual", description |-> description,
                            parent_version_id |-> parent_version_id],
                           r.result)
        /\ UNCHANGED clock

AddDataToVersion ==
    \E version_id \in KnownIds, df \in Batches, data_type \in DataTypes :
        /\ LET r == add_data_to_version(State, clock, version_id, df, data_type)
           IN  /\ Become(r.s)
               /\ Returned("add_data_to_version",
                           [version_id |-> version_id, df |-> df, data_type |-> data_type],
                           r.result)
        /\ UNCHANGED clock

StoreInDatabase ==
    \E df \in Batches :
        /\ LET r == store_in_database(State, clock, df)
           IN  /\ Become(r.s)
               /\ Returned("store_in_database", [df |-> df], r.result)
        /\ UNCHANGED clock

GetVersionHistory ==
    /\ Returned("get_version_history", <<>>, get_version_history(State))
    /\ UNCHANGED <<registry, dirs, info, files, db_versions, cities, weather,
                   daily_weather_stats, processed_files, next_uuid, clock>>

GetLatestVersion ==
    /\ Returned("get_latest_version", <<>>, get_latest_version(State))
    /\ UNCHANGED <<registry, dirs, info, files, db_versions, cities, weather,
                   daily_weather_stats, processed_files, next_uuid, clock>>

\* A verify_version_integrity that rewrites version_info.json without the
\* descriptors whose files it did not find.
VerifyVersionIntegrity_Repairs ==
    \E version_id \in KnownIds :
        /\ Returned("verify_version_integrity", [version_id |-> version_id],
                    verify_version_integrity(State, version_id))
        /\ info' = IF version_id \in dirs
                   THEN [info EXCEPT ![version_id].data_files =
                            SelectSeq(@, LAMBDA file_info :
                                Path(version_id, file_info.filename) \in DOMAIN files)]
                   ELSE info
        /\ UNCHANGED <<registry, dirs, files, db_versions, cities, weather,
                       daily_weather_stats, processed_files, next_uuid, clock>>

VerifyVersionIntegrity ==
    \E version_id \in KnownIds :
        /\ Returned("verify_version_integrity", [version_id |-> version_id],
                    verify_version_integrity(State, version_id))
        /\ UNCHANGED <<registry, dirs, info, files, db_versions, cities,
                       weather, daily_weather_stats, processed_files, next_uuid,
                       clock>>

GetVersionData ==
    \E version_id \in KnownIds, data_type \in DataTypes \cup {None} :
        /\ calls < MaxCalls
        /\ calls' = calls + 1
        /\ LET r == get_version_data(State, version_id, data_type)
           IN  last' = [op |-> "get_version_data",
                        args |-> [version_id |-> version_id, data_type |-> data_type],
                        result |-> r.result, raised |-> r.raised]
        /\ UNCHANGED <<registry, dirs, info, files, db_versions, cities,
                       weather, daily_weather_stats, processed_files, next_uuid,
                       clock, document, procs, scheduler>>

\* add_data_to_version with a frame of daily statistics, as
\* generate_daily_stats calls it (weather_processor.py, line 227).
AddDailyStats ==
    \E version_id \in KnownIds :
        /\ LET r == add_data_to_version(State, clock, version_id, DailyStats, "daily_stats")
           IN  /\ Become(r.s)
               /\ Returned("add_data_to_version",
                           [version_id |-> version_id, df |-> DailyStats,
                            data_type |-> "daily_stats"],
                           r.result)
        /\ UNCHANGED clock

\* The retention periods the job is called with: a day, and the default.
RetentionDays == {1, 30}

CleanOldVersions ==
    \E days_to_keep \in RetentionDays :
        /\ LET r == clean_old_versions(State, clock, days_to_keep)
           IN  /\ Become(r.s)
               /\ Returned("clean_old_versions", [days_to_keep |-> days_to_keep],
                           r.result)
        /\ UNCHANGED clock

\* Two days pass.
DaysPass ==
    /\ clock' = clock + 2 * SecondsPerDay
    /\ Returned("days_pass", <<>>, None)
    /\ UNCHANGED <<registry, dirs, info, files, db_versions, cities, weather,
                   daily_weather_stats, processed_files, next_uuid>>

\* The lists of records store_weather_data is called with: one record, the
\* same record twice, a record followed by one of the same city that lacks
\* its temperature, and such a record alone.
StoreBatches(now) ==
    { <<Row(1, now, 15, 0)>>,
      <<Row(1, now, 15, 0), Row(1, now, 15, 0)>>,
      <<Row(1, now, 15, 0), <<IntCell(1), IntCell(now + 1)>>>>,
      <<<<IntCell(2), IntCell(now)>>>> }

StoreWeatherData ==
    \E weather_data \in StoreBatches(clock) :
        /\ LET r == store_weather_data(State, weather_data, "current")
           IN  /\ Become(r.s)
               /\ Returned("store_weather_data",
                           [weather_data |-> weather_data, version_id |-> "current"],
                           r.result)
        /\ UNCHANGED clock

\* What the start of store_data does to the scheduler (lines 57-62): the new
\* files are listed; without any the job returns.
ListsFiles ==
    /\ scheduler.pc = "idle"
    /\ LET new_files == get_new_files(State, scheduler.last_processed_time)
       IN  scheduler' = IF new_files = {} THEN scheduler
                        ELSE [scheduler EXCEPT !.pc = "storing",
                                               !.new_files = new_files,
                                               !.seen = @ \cup new_files]

\* What the end of store_data does to the scheduler (line 96): the time of
\* the end of the job is remembered.  datetime.now() and the files' mtimes
\* are finer than the second: the moment read is one of its own, after every
\* write so far and before every later one.
RemembersTime ==
    /\ scheduler.pc = "storing"
    /\ scheduler' = [scheduler EXCEPT !.pc = "idle", !.new_files = {},
                                      !.last_processed_time = clock + 1]

\* store_data, lines 57-62.
StoreData ==
    /\ ListsFiles
    /\ UNCHANGED <<registry, dirs, info, files, db_versions, cities, weather,
                   daily_weather_stats, processed_files, next_uuid, clock, calls,
                   last, document, procs>>

\* store_data, lines 64-96: the files listed are stored under a new version
\* and the time of the end of the job is remembered.
StoreFinish ==
    /\ RemembersTime
    /\ LET r == store_data(State, clock + 1, scheduler.new_files)
       IN  Become(r.s)
    /\ clock' = clock + 2
    /\ last' = [op |-> "store_data", args |-> <<>>, result |-> None, raised |-> None]
    /\ UNCHANGED <<calls, document, procs>>

\* The retention periods the pruning job is called with: a day, and the two
\* days that put the cutoff on the day before yesterday's records.
PruneDays == {1, 2}

PruneOldData ==
    \E days_to_keep \in PruneDays :
        /\ LET r == prune_old_data(State, clock, days_to_keep)
           IN  /\ Become(r.s)
               /\ Returned("prune_old_data", [days_to_keep |-> days_to_keep],
                           r.result)
        /\ UNCHANGED clock

\* The batch process_recent_data makes of the files collected in the last
\* hours: two observations of one city, a second apart.
Collected(now) ==
    DataFrame("range", <<Row(1, now, 15, 0), Row(1, now + 1, 14, 0)>>)

\* The processing job (process_scheduler.py, lines 8-14): run_processor is
\* called and the frame it returns is dropped.
RunProcessor ==
    /\ LET r == run_processor(State, clock, Collected(clock))
       IN  /\ Become(r.s)
           /\ Returned("run_processor", <<>>, None)
    /\ UNCHANGED clock

Ancestors ==
    \E version_id \in KnownIds :
        /\ calls < MaxCalls
        /\ calls' = calls + 1
        /\ LET r == ancestors(registry, version_id)
           IN  last' = [op |-> "ancestors", args |-> [version_id |-> version_id],
                        result |-> r.result, raised |-> r.raised]
        /\ UNCHANGED <<registry, dirs, info, files, db_versions, cities,
                       weather, daily_weather_stats, processed_files, next_uuid,
                       clock, document, procs, scheduler>>

\* Something outside the program rewrites version_registry.json so that a
\* version's parent is another id of the registry (its own, a descendant's).
RewriteParent ==
    \E i \in DOMAIN registry.versions :
      \E parent_id \in {registry.versions[j].id : j \in DOMAIN registry.versions} :
        /\ parent_id # registry.versions[i].parent_id
        /\ registry' = [registry EXCEPT !.versions[i].parent_id = parent_id]
        /\ Returned("rewrite_parent",
                    [version_id |-> registry.versions[i].id, parent_id |-> parent_id],
                    None)
        /\ UNCHANGED <<dirs, info, files, db_versions, cities, weather,
                       daily_weather_stats, processed_files, next_uuid, clock>>

\* A process that has not constructed its DataVersioner yet.
New == [Idle EXCEPT !.pc = "new"]

EmptyRegistry == [versions |-> <<>>, latest_version |-> None]

\* A save that keeps the versions another writer has added to the file.
save_registry_Merging(current, local) ==
    [versions |-> local.versions \o
                  SelectSeq(current.versions,
                            LAMBDA v : \A i \in DOMAIN local.versions :
                                           local.versions[i].id # v.id),
     latest_version |-> local.latest_version]

\* What _save_registry leaves in the file (lines 48-51): the registry the
\* caller holds, whatever the file held.
save_registry(current, local) == local

\* A call of process p ends: it returns a result or raises.
Ends(p, op, args, result, raised) ==
    /\ procs' = [procs EXCEPT ![p] = Idle]
    /\ last' = [op |-> op, args |-> args, result |-> result, raised |-> raised]

\* A call of process p begins.
Begins(p) ==
    /\ procs[p].pc = "idle"
    /\ calls < MaxCalls
    /\ calls' = calls + 1

\* DataVersioner(): __init__ and the test of _initialize_registry (line 31).
Construct(p) ==
    /\ procs[p].pc = "new"
    /\ procs' = [procs EXCEPT ![p] =
                    IF document = "absent"
                    THEN [Idle EXCEPT !.pc = "open", !.op = "init",
                                      !.registry = EmptyRegistry]
                    ELSE Idle]
    /\ UNCHANGED <<registry, dirs, info, files, db_versions, cities, weather,
                   daily_weather_stats, processed_files, next_uuid, clock,
                   calls, last, document, scheduler>>

\* A create_version that makes the version directory before it loads the
\* registry.
CreateLoad_MkdirFirst(p) ==
    /\ Begins(p)
    /\ dirs' = dirs \cup {uuid4(State)}
    /\ next_uuid' = next_uuid + 1
    /\ IF document = "parsable"
       THEN /\ procs' = [procs EXCEPT ![p] =
                            [Idle EXCEPT !.pc = "open", !.op = "create_version",
                                         !.version_id = uuid4(State),
                                         !.registry =
                                             [versions |->
                                                  Append(registry.versions,
                                                      VersionRecord(uuid4(State), "manual", None,
                                                          ResolveParent(registry, None))),
                                              latest_version |-> uuid4(State)]]]
            /\ UNCHANGED last
       ELSE Ends(p, "create_version",
                 [name |-> "manual", description |-> None, parent_version_id |-> None],
                 None, "JSONDecodeError")
    /\ UNCHANGED <<registry, info, files, db_versions, cities, weather,
                   daily_weather_stats, processed_files, clock, document,
                   scheduler>>

\* create_version, line 56: self._load_registry(); json.load raises on a file
\* that is no complete document.
CreateLoad(p) ==
    /\ Begins(p)
    /\ IF document = "parsable"
       THEN /\ procs' = [procs EXCEPT ![p] =
                            [Idle EXCEPT !.pc = "mkdir", !.op = "create_version",
                                         !.registry = registry]]
            /\ UNCHANGED last
       ELSE Ends(p, "create_version",
                 [name |-> "manual", description |-> None, parent_version_id |-> None],
                 None, "JSONDecodeError")
    /\ UNCHANGED <<registry, dirs, info, files, db_versions, cities, weather,
                   daily_weather_stats, processed_files, next_uuid, clock,
                   document, scheduler>>

\* create_version, lines 59-84: the id, the directory, and the record
\* appended to the registry the call holds.
CreateMkdir(p) ==
    /\ procs[p].pc = "mkdir"
    /\ LET version_id == uuid4(State)
           reg == procs[p].registry
           version_record == VersionRecord(version_id, "manual", None,
                                           ResolveParent(reg, None))
       IN  /\ dirs' = dirs \cup {version_id}
           /\ procs' = [procs EXCEPT ![p].pc = "open",
                                     ![p].version_id = version_id,
                                     ![p].registry =
                                         [versions |-> Append(reg.versions, version_record),
                                          latest_version |-> version_id]]
    /\ next_uuid' = next_uuid + 1
    /\ UNCHANGED <<registry, info, files, db_versions, cities, weather,
                   daily_weather_stats, processed_files, clock, calls, last,
                   document, scheduler>>

\* add_data_to_version, lines 108-119: the registry is loaded and the version
\* looked up.
AddLoad(p) ==
    \E version_id \in dirs, df \in Batches :
        LET args == [version_id |-> version_id, df |-> df,
                     data_type |-> "processed_weather"]
        IN  /\ Begins(p)
            /\ IF document # "parsable"
               THEN Ends(p, "add_data_to_version", args, None, "JSONDecodeError")
               ELSE IF FindVersion(registry, version_id) = 0
               THEN Ends(p, "add_data_to_version", args, None, None)
               ELSE /\ procs' = [procs EXCEPT ![p] =
                                    [Idle EXCEPT !.pc = "parquet",
                                                 !.op = "add_data_to_version",
                                                 !.registry = registry,
                                                 !.version_id = version_id,
                                                 !.df = df,
                                                 !.data_type = "processed_weather"]]
                    /\ UNCHANGED last
            /\ UNCHANGED <<registry, dirs, info, files, db_versions, cities,
                           weather, daily_weather_stats, processed_files,
                           next_uuid, clock, document, scheduler>>

\* add_data_to_version, lines 121-142: the file is written and the
\* descriptor appended to the registry the call holds.
AddParquet(p) ==
    /\ procs[p].pc = "parquet"
    /\ LET me == procs[p]
           i == FindVersion(me.registry, me.version_id)
           filename == Filename(me.data_type, clock)
           filepath == Path(me.version_id, filename)
       IN  /\ files' = Put(files, filepath, to_parquet(me.df))
           /\ procs' = [procs EXCEPT
                          ![p].pc = "open",
                          ![p].filepath = filepath,
                          ![p].registry.versions[i] =
                              AppendFile(@, FileInfo(filename, me.data_type, me.df))]
    /\ UNCHANGED <<registry, dirs, info, db_versions, cities, weather,
                   daily_weather_stats, processed_files, next_uuid, clock,
                   calls, last, document, scheduler>>

\* open(self.version_registry_file, 'w') (lines 38 and 50): the file is there
\* and empty.
Open(p) ==
    /\ procs[p].pc = "open"
    /\ document' = "torn"
    /\ procs' = [procs EXCEPT ![p].pc = "dump", ![p].stale = FALSE]
    /\ UNCHANGED <<registry, dirs, info, files, db_versions, cities, weather,
                   daily_weather_stats, processed_files, next_uuid, clock,
                   calls, last, scheduler>>

\* json.dump and the close of the file (lines 39 and 51).  The text goes to
\* the start of the file; when another writer's text got there since this
\* writer's open, what is left of that text behind this one may make the file
\* unparsable.
Dump(p) ==
    /\ procs[p].pc = "dump"
    /\ \/ /\ document' = "parsable"
          /\ registry' = save_registry(registry, procs[p].registry)
       \/ /\ procs[p].stale
          /\ document' = "torn"
          /\ registry' = registry
    /\ procs' = [q \in Procs |->
                    IF q = p
                    THEN IF procs[p].op = "init" THEN Idle
                         ELSE [procs[p] EXCEPT !.pc = "info", !.stale = FALSE]
                    ELSE IF procs[q].pc = "dump"
                         THEN [procs[q] EXCEPT !.stale = TRUE]
                         ELSE procs[q]]
    /\ UNCHANGED <<dirs, info, files, db_versions, cities, weather,
                   daily_weather_stats, processed_files, next_uuid, clock,
                   calls, last, scheduler>>

\* version_info.json of the version's directory is written (lines 90-92 and
\* 147-150); add_data_to_version returns.
WriteInfo(p) ==
    /\ procs[p].pc = "info"
    /\ LET me == procs[p]
           version == me.registry.versions[FindVersion(me.registry, me.version_id)]
       IN  /\ info' = Put(info, me.version_id, version)
           /\ IF me.op = "add_data_to_version"
              THEN Ends(p, "add_data_to_version",
                        [version_id |-> me.version_id, df |-> me.df,
                         data_type |-> me.data_type],
                        me.filepath, None)
              ELSE /\ procs' = [procs EXCEPT ![p].pc = "db"]
                   /\ UNCHANGED last
    /\ UNCHANGED <<registry, dirs, files, db_versions, cities, weather,
                   daily_weather_stats, processed_files, next_uuid, clock,
                   calls, document, scheduler>>

\* create_version, lines 96-102: the row of data_versions, and the return.
CreateDb(p) ==
    /\ procs[p].pc = "db"
    /\ LET me == procs[p]
           version == me.registry.versions[FindVersion(me.registry, me.version_id)]
           r == create_data_version(State, clock, "manual", None, version.parent_id)
       IN  /\ db_versions' = r.s.db_versions
           /\ next_uuid' = r.s.next_uuid
           /\ Ends(p, "create_version",
                   [name |-> "manual", description |-> None, parent_version_id |-> None],
                   me.version_id, None)
    /\ UNCHANGED <<registry, dirs, info, files, cities, weather,
                   daily_weather_stats, processed_files, clock, calls, document,
                   scheduler>>

\* A statement of create_version raises: os.makedirs (line 63), os.listdir
\* or the open of the registry (78-79, 50), json.dump (51), the write of
\* version_info.json (91-92), the database session (97-100).  create_version
\* has no try statement: the call ends there, with what it has done so far.
Raises(p) ==
    /\ procs[p].op = "create_version"
    /\ procs[p].pc \in {"mkdir", "open", "dump", "info", "db"}
    /\ Ends(p, "create_version",
            [name |-> "manual", description |-> None, parent_version_id |-> None],
            None,
            IF procs[p].pc = "db" THEN "SQLAlchemyError" ELSE "OSError")
    /\ UNCHANGED <<registry, dirs, info, files, db_versions, cities, weather,
                   daily_weather_stats, processed_files, next_uuid, clock,
                   calls, document, scheduler>>

\* get_version_history of a process while others write (lines 198-201).
ReadHistory(p) ==
    /\ Begins(p)
    /\ IF document = "parsable"
       THEN Ends(p, "get_version_history", <<>>, None, None)
       ELSE Ends(p, "get_version_history", <<>>, None, "JSONDecodeError")
    /\ UNCHANGED <<registry, dirs, info, files, db_versions, cities, weather,
                   daily_weather_stats, processed_files, next_uuid, clock,
                   document, scheduler>>

\* The process dies in the middle of a call; another may be started in its
\* place.
Crash(p) ==
    /\ procs[p].pc \notin {"new", "idle"}
    /\ calls < MaxCalls
    /\ calls' = calls + 1
    /\ procs' = [procs EXCEPT ![p] = New]
    /\ UNCHANGED <<registry, dirs, info, files, db_versions, cities, weather,
                   daily_weather_stats, processed_files, next_uuid, clock, last,
                   document, scheduler>>

\* A second passes.
Tick ==
    /\ clock' = clock + 1
    /\ Returned("tick", <<>>, None)
    /\ UNCHANGED <<registry, dirs, info, files, db_versions, cities, weather,
                   daily_weather_stats, processed_files, next_uuid>>

\* The artifact files of a version directory.
ArtifactsOf(version_id) ==
    {f \in {info[version_id].data_files[i].filename :
               i \in DOMAIN info[version_id].data_files} :
        Path(version_id, f) \in DOMAIN files}

\* What a changed byte can make of a file: bytes that are no parquet file, a
\* file with one row more, and, when it has rows, a file whose first
\* temperature differs in the eleventh decimal place or in the first.
Corruptions(file) ==
    {Unreadable, [file EXCEPT !.rows = Append(@, Row(1, 2, 20, 0))]}
    \cup (IF file.readable /\ file.rows # <<>>
          THEN {[file EXCEPT !.rows[1][3].x = @ + 1],
                [file EXCEPT !.rows[1][3].v = @ + 1]}
          ELSE {})

\* Something outside the program changes the content of an artifact file.
CorruptArtifact ==
    \E version_id \in dirs :
      \E filename \in ArtifactsOf(version_id) :
       \E content \in Corruptions(files[Path(version_id, filename)]) :
        /\ content # files[Path(version_id, filename)]
        /\ files' = [files EXCEPT ![Path(version_id, filename)] = content]
        /\ Returned("corrupt", [version_id |-> version_id, filename |-> filename], None)
        /\ UNCHANGED <<registry, dirs, info, db_versions, cities, weather,
                       daily_weather_stats, processed_files, next_uuid, clock>>

\* Something outside the program deletes an artifact file.
DeleteArtifact ==
    \E version_id \in dirs :
      \E filename \in ArtifactsOf(version_id) :
        /\ files' = [p \in DOMAIN files \ {Path(version_id, filename)} |-> files[p]]
        /\ Returned("delete", [version_id |-> version_id, filename |-> filename], None)
        /\ UNCHANGED <<registry, dirs, info, db_versions, cities, weather,
                       daily_weather_stats, processed_files, next_uuid, clock>>

\* A single writer, nothing else touching the files.
Next ==
    \/ CreateVersion
    \/ AddDataToVersion
    \/ StoreInDatabase
    \/ Tick

Spec == Init /\ [][Next]_vars

\* The writer and the readers of the registry and the version directories.
NextReads ==
    \/ Next
    \/ GetVersionHistory
    \/ GetLatestVersion
    \/ VerifyVersionIntegrity
    \/ GetVersionData

SpecReads == Init /\ [][NextReads]_vars

\* The versioner with weather batches and daily statistics attached, and its
\* reader.
NextLoad ==
    \/ CreateVersion
    \/ AddDataToVersion
    \/ AddDailyStats
    \/ Tick
    \/ GetVersionData

SpecLoad == Init /\ [][NextLoad]_vars

\* The versioner and the retention job, over days.
NextRetention ==
    \/ CreateVersion
    \/ AddDataToVersion
    \/ DaysPass
    \/ CleanOldVersions

SpecRetention == Init /\ [][NextRetention]_vars

\* The processor and the maintenance jobs of the database, over days.
NextJobs ==
    \/ RunProcessor
    \/ DaysPass
    \/ CleanOldVersions
    \/ PruneOldData

SpecJobs == Init /\ [][NextJobs]_vars

\* The process whose calls are followed statement by statement when no other
\* process works on the directory.
Writer == "p1"

\* create_version of a single writer, statement by statement, with the
\* statements that can raise.
NextFaults ==
    \/ CreateLoad(Writer)
    \/ CreateMkdir(Writer)
    \/ Open(Writer)
    \/ Dump(Writer)
    \/ WriteInfo(Writer)
    \/ CreateDb(Writer)
    \/ Raises(Writer)

SpecFaults == Init /\ [][NextFaults]_vars

\* The writer, the readers, and files changed or deleted from outside.
NextAudit ==
    \/ CreateVersion
    \/ AddDataToVersion
    \/ CorruptArtifact
    \/ DeleteArtifact
    \/ GetVersionHistory
    \/ GetLatestVersion
    \/ VerifyVersionIntegrity
    \/ GetVersionData

SpecAudit == Init /\ [][NextAudit]_vars

\* store_weather_data called over time.
NextStore ==
    \/ StoreWeatherData
    \/ Tick

SpecStore == Init /\ [][NextStore]_vars

\* The processor writing files while the storage job runs time and again.
NextStorage ==
    \/ RunProcessor
    \/ Tick
    \/ StoreData
    \/ StoreFinish

\* schedule.every(1).hours.do(scheduler.store_data) (storage_scheduler.py,
\* lines 130-136): the job is started again and again, and a job started
\* runs to its end.
SpecStorage ==
    /\ Init /\ [][NextStorage]_vars
    /\ WF_scheduler(ListsFiles)
    /\ WF_scheduler(RemembersTime)

\* The writer's calls and the readers, at one moment of the clock.
NextPointer ==
    \/ CreateVersion
    \/ AddDataToVersion
    \/ StoreInDatabase
    \/ GetVersionHistory
    \/ GetLatestVersion
    \/ VerifyVersionIntegrity
    \/ GetVersionData

SpecPointer == Init /\ [][NextPointer]_vars

\* The versioner and the lineage walk, with the registry document rewritten
\* from outside.
NextLineage ==
    \/ CreateVersion
    \/ RewriteParent
    \/ Ancestors

SpecLineage == Init /\ [][NextLineage]_vars

\* A fresh directory: no registry document, no DataVersioner constructed.
InitFresh ==
    /\ registry = EmptyRegistry
    /\ dirs = {}
    /\ info = EmptyMap
    /\ files = EmptyMap
    /\ db_versions = <<>>
    /\ cities = {}
    /\ weather = <<>>
    /\ daily_weather_stats = <<>>
    /\ processed_files = {}
    /\ scheduler = Stopped
    /\ next_uuid = 0
    /\ clock = 0
    /\ calls = 0
    /\ last = [op |-> "init", args |-> <<>>, result |-> None, raised |-> None]
    /\ document = "absent"
    /\ procs = [p \in Procs |-> New]

\* Processes that share the version directory, each step of a call at a time.
NextShared ==
    \E p \in Procs :
        \/ Construct(p)
        \/ CreateLoad(p)
        \/ CreateMkdir(p)
        \/ AddLoad(p)
        \/ AddParquet(p)
        \/ Open(p)
        \/ Dump(p)
        \/ WriteInfo(p)
        \/ CreateDb(p)
        \/ ReadHistory(p)
        \/ Crash(p)

SpecShared == InitFresh /\ [][NextShared]_vars

\* The versioner's own calls, with artifact files modified from outside.
NextEnv ==
    \/ CreateVersion
    \/ AddDataToVersion
    \/ Tick
    \/ CorruptArtifact
    \/ DeleteArtifact

SpecEnv == Init /\ [][NextEnv]_vars

-----------------------------------------------------------------------------
(* Properties *)

RegistryIds(reg) == {reg.versions[i].id : i \in DOMAIN reg.versions}

IsPrefix(a, b) == Len(a) <= Len(b) /\ SubSeq(b, 1, Len(a)) = a

Newest(reg) == reg.versions[Len(reg.versions)]

\* What every create_version step does to the history, whatever the parent:
\* the previous history plus one entry with the name and description given,
\* no data files, and the returned id, which no earlier version has.
CreateAppendsOne ==
    /\ Len(get_version_history(State)') = Len(get_version_history(State)) + 1
    /\ IsPrefix(get_version_history(State), get_version_history(State)')
    /\ Newest(registry').name = last'.args.name
    /\ Newest(registry').description = last'.args.description
    /\ Newest(registry').data_files = <<>>
    /\ Newest(registry').id = last'.result
    /\ Newest(registry').id \notin RegistryIds(registry)

\* C1 as stated: create_version followed by get_version_history yields the
\* previous history plus exactly one new entry whose name, description and
\* parent are the arguments, whose data-file list is empty and whose id is new
\* to the registry.
C1_ParentIsTheArgument ==
    [][last'.op = "create_version" =>
          /\ CreateAppendsOne
          /\ Newest(registry').parent_id = last'.args.parent_version_id]_vars

\* C1, amended: create_version followed by get_version_history yields the
\* previous history plus exactly one new entry whose name and description are
\* the arguments, whose parent is the parent argument when one is given and the
\* previous latest version when none is given (null on an empty registry),
\* whose data-file list is empty and whose id is new to the registry.
C1_CreateAppendsOneMatchingEntry ==
    [][last'.op = "create_version" =>
          /\ CreateAppendsOne
          /\ Newest(registry').parent_id =
                IF last'.args.parent_version_id # None
                THEN last'.args.parent_version_id
                ELSE get_latest_version(State)]_vars

\* A create_version with an explicit parent has completed on a registry that
\* held a version already.
C1_Witness ==
    /\ last.op = "create_version"
    /\ last.args.parent_version_id # None
    /\ last.args.description # None
    /\ Len(registry.versions) >= 2

\* C2: create_version without a parent records, on a registry that holds a
\* version, the value get_latest_version returned just before the call, and
\* null on an empty registry.
C2_ImplicitParentIsPriorLatest ==
    [][last'.op = "create_version" /\ last'.args.parent_version_id = None =>
          Newest(registry').parent_id =
              IF Len(registry.versions) >= 1
              THEN get_latest_version(State)
              ELSE None]_vars

\* A create_version without a parent has completed on a registry that held a
\* version, and the new version points at it.
C2_Witness ==
    /\ last.op = "create_version"
    /\ last.args.parent_version_id = None
    /\ Len(registry.versions) >= 2
    /\ Newest(registry).parent_id = registry.versions[Len(registry.versions) - 1].id

\* C3: create_version with an explicit parent that is the id of no version
\* fails with ParentNotFoundError and leaves the version list and the latest
\* pointer as they were.
C3_UnknownParentIsRejected ==
    [][/\ last'.op = "create_version"
       /\ last'.args.parent_version_id # None
       /\ last'.args.parent_version_id \notin RegistryIds(registry)
       => /\ last'.raised = "ParentNotFoundError"
          /\ registry' = registry]_vars

\* C4: every version's parent_id is null or the id of a version earlier in
\* the versions list.
C4_ParentsNeverDangle ==
    \A i \in DOMAIN registry.versions :
        \/ registry.versions[i].parent_id = None
        \/ \E j \in 1..(i - 1) : registry.versions[j].id = registry.versions[i].parent_id

\* C5: add_data_to_version with a version id that is not in the registry
\* fails with VersionNotFoundError, writes no artifact file and leaves the
\* registry document unchanged.
C5_UnknownVersionIsRejected ==
    [][/\ last'.op = "add_data_to_version"
       /\ last'.args.version_id \notin RegistryIds(registry)
       => /\ last'.raised = "VersionNotFoundError"
          /\ files' = files
          /\ registry' = registry]_vars

\* C6: every step of a single writer leaves each version of the registry in
\* its place with its id and parent_id, and with its earlier data_files list
\* as a prefix of the later one.
C6_VersionsAreAppendOnly ==
    [][\A i \in DOMAIN registry.versions :
          /\ i \in DOMAIN registry'.versions
          /\ registry'.versions[i].id = registry.versions[i].id
          /\ registry'.versions[i].parent_id = registry.versions[i].parent_id
          /\ IsPrefix(registry.versions[i].data_files,
                      registry'.versions[i].data_files)]_vars

\* A second descriptor has been attached to a version while another version
\* is in the registry.
C6_Witness ==
    /\ last.op = "add_data_to_version"
    /\ Len(registry.versions) >= 2
    /\ \E i \in DOMAIN registry.versions : Len(registry.versions[i].data_files) >= 2

\* C7: within one version no two artifact descriptors have the same
\* filename.
C7_FilenamesUniqueInVersion ==
    \A i \in DOMAIN registry.versions :
        \A j, k \in DOMAIN registry.versions[i].data_files :
            j # k =>
                registry.versions[i].data_files[j].filename #
                registry.versions[i].data_files[k].filename

\* The report entry verify_version_integrity makes for the descriptor a
\* version received last.
NewestDetail(version_id) ==
    LET report == verify_version_integrity(State, version_id)
    IN  report.details[Len(report.details)]

\* C8: right after add_data_to_version(v, kind, R) the written file reads
\* back as the columns and rows of R, and verify_version_integrity(v) reports
\* the descriptor just attached as valid.
C8_RoundTripAndValid ==
    last.op = "add_data_to_version" /\ last.result # None =>
        /\ last.result \in DOMAIN files
        /\ files[last.result].readable
        /\ read_parquet(files[last.result]).rows = last.args.df.rows
        /\ read_parquet(files[last.result]).columns = last.args.df.columns
        /\ Path(last.args.version_id, NewestDetail(last.args.version_id).filename)
              = last.result
        /\ NewestDetail(last.args.version_id).status = "valid"

\* Rows under a non-default index have been attached.
C8_Witness ==
    /\ last.op = "add_data_to_version"
    /\ last.result # None
    /\ last.args.df.index = "custom"
    /\ last.args.df.rows # <<>>

\* The entries of a version's report that name this file.
DetailsOf(version_id, filename) ==
    LET report == verify_version_integrity(State, version_id)
    IN  {report.details[i] : i \in {j \in DOMAIN report.details :
                                       report.details[j].filename = filename}}

\* C9: once the content of an artifact file of v has been changed without
\* the recorded hash, verify_version_integrity(v) classifies the artifact as
\* invalid (an entry counted in files_invalid, whether its status reads
\* "invalid" or "error") and the report is not valid.
C9_ChangedContentIsInvalid ==
    last.op = "corrupt" =>
        /\ \A d \in DetailsOf(last.args.version_id, last.args.filename) :
              d.status \in {"invalid", "error"}
        /\ verify_version_integrity(State, last.args.version_id).files_invalid >= 1
        /\ ~verify_version_integrity(State, last.args.version_id).valid

\* C10: a descriptor whose artifact file is gone is reported as missing and
\* counted in missing_files, and its version is reported as not valid.
C10_DeletedFileIsMissing ==
    \A version_id \in dirs :
        LET report == verify_version_integrity(State, version_id)
            gone == {i \in DOMAIN info[version_id].data_files :
                        Path(version_id, info[version_id].data_files[i].filename)
                            \notin DOMAIN files}
        IN  /\ \A i \in gone :
                  /\ report.details[i].filename = info[version_id].data_files[i].filename
                  /\ report.details[i].status = "missing"
            /\ report.missing_files = Cardinality(gone)
            /\ gone # {} => ~report.valid

\* An artifact file has just been deleted and its version still has another
\* artifact.
C10_Witness ==
    /\ last.op = "delete"
    /\ Path(last.args.version_id, last.args.filename) \notin DOMAIN files
    /\ ArtifactsOf(last.args.version_id) # {}

\* The descriptors of a version directory whose file is there, can be read
\* and has the recorded hash.
IntactFiles(version_id) ==
    {i \in DOMAIN info[version_id].data_files :
        LET file_info == info[version_id].data_files[i]
            filepath == Path(version_id, file_info.filename)
        IN  /\ filepath \in DOMAIN files
            /\ files[filepath].readable
            /\ calculate_data_hash(read_parquet(files[filepath])) = file_info.hash}

\* C11: for every existing version the report is valid exactly when nothing
\* was counted invalid and nothing missing, which is exactly when every
\* descriptor's file is there and hashes to the recorded hash; a version
\* without descriptors is reported valid.
C11_ValidIffEveryFileIntact ==
    \A version_id \in dirs :
        LET report == verify_version_integrity(State, version_id)
        IN  /\ report.valid <=> (report.files_invalid = 0 /\ report.missing_files = 0)
            /\ report.valid <=>
                  IntactFiles(version_id) = DOMAIN info[version_id].data_files
            /\ info[version_id].data_files = <<>> => report.valid

\* A version with an intact artifact and a failing one is reported not valid
\* while a version without descriptors is there as well.
C11_Witness ==
    /\ \E version_id \in dirs :
          LET report == verify_version_integrity(State, version_id)
          IN  /\ report.files_valid >= 1
              /\ report.files_invalid + report.missing_files >= 1
              /\ ~report.valid
    /\ \E version_id \in dirs :
          /\ info[version_id].data_files = <<>>
          /\ verify_version_integrity(State, version_id).valid

\* C12: the report has exactly one detail entry per descriptor, in
\* descriptor order, and every entry's status is valid, invalid or missing,
\* whatever the state of the artifact file.
C12_OneEntryPerDescriptorOfThreeKinds ==
    \A version_id \in dirs :
        LET report == verify_version_integrity(State, version_id)
            data_files == info[version_id].data_files
        IN  /\ Len(report.details) = Len(data_files)
            /\ \A i \in DOMAIN data_files :
                  /\ report.details[i].filename = data_files[i].filename
                  /\ report.details[i].status \in {"valid", "invalid", "missing"}

\* C13: whatever the state of the artifact files, verify_version_integrity
\* of an existing version returns a report with its counters and its verdict,
\* and the report has an entry for every descriptor, those after a failing
\* one included.
C13_ReportCoversEveryDescriptor ==
    \A version_id \in dirs :
        LET report == verify_version_integrity(State, version_id)
            data_files == info[version_id].data_files
        IN  /\ {"details", "valid", "files_checked"} \subseteq DOMAIN report
            /\ report.files_checked = Len(data_files)
            /\ report.files_valid + report.files_invalid + report.missing_files
                  = Len(data_files)
            /\ DOMAIN report.details = DOMAIN data_files
            /\ \A i \in DOMAIN data_files :
                  report.details[i].filename = data_files[i].filename

\* The first artifact of a version is absent or unreadable and the report
\* goes on to find the second one valid.
C13_Witness ==
    \E version_id \in dirs :
        LET report == verify_version_integrity(State, version_id)
        IN  /\ Len(report.details) >= 2
            /\ report.details[1].status \in {"missing", "error"}
            /\ report.details[2].status = "valid"

\* The descriptors of a version that a load of this kind selects.
Selected(version_id, kind) ==
    {i \in DOMAIN info[version_id].data_files :
        kind = None \/ info[version_id].data_files[i].data_type = kind}

\* The rows in the files of the selected descriptors from the i-th on, in
\* descriptor order.
RECURSIVE RowsOfArtifacts(_, _, _)
RowsOfArtifacts(version_id, kind, i) ==
    IF i > Len(info[version_id].data_files) THEN <<>>
    ELSE (IF i \in Selected(version_id, kind)
          THEN files[Path(version_id, info[version_id].data_files[i].filename)].rows
          ELSE <<>>)
         \o RowsOfArtifacts(version_id, kind, i + 1)

C15_MissingArtifactFailsLoad ==
    \A version_id \in dirs :
        (\E i \in DOMAIN info[version_id].data_files :
            Path(version_id, info[version_id].data_files[i].filename) \notin DOMAIN files)
        => get_version_data(State, version_id, None).raised = "ArtifactMissingError"

\* The column sets of the files a load of this kind reads.
ColumnSets(version_id, kind) ==
    {LET file == files[Path(version_id, info[version_id].data_files[i].filename)]
     IN  {file.columns[j] : j \in DOMAIN file.columns} :
        i \in Selected(version_id, kind)}

\* C16: when the artifacts get_version_data(v, kind) selects do not all have
\* the same column set, the call fails with SchemaMismatchError.
C16_DivergentColumnsFailLoad ==
    \A version_id \in dirs :
        \A kind \in DataTypes \cup {None} :
            Cardinality(ColumnSets(version_id, kind)) >= 2
            => get_version_data(State, version_id, kind).raised = "SchemaMismatchError"

\* The sum of the row counts recorded in the descriptors from the i-th on.
RECURSIVE RowsRecorded(_, _)
RowsRecorded(data_files, i) ==
    IF i > Len(data_files) THEN 0
    ELSE data_files[i].rows + RowsRecorded(data_files, i + 1)

\* C17: with the files of v intact (verify_version_integrity(v) valid),
\* get_version_data(v) returns as many rows as v's own descriptors record,
\* whatever the artifacts of its parent hold.
C17_LoadReturnsOwnRowsOnly ==
    \A version_id \in dirs :
        verify_version_integrity(State, version_id).valid =>
            LET loaded == get_version_data(State, version_id, None)
            IN  /\ loaded.raised = None
                /\ Len(loaded.result.rows) = RowsRecorded(info[version_id].data_files, 1)

\* A version with rows whose parent has rows of its own.
C17_Witness ==
    \E version_id \in dirs :
        /\ info[version_id].parent_id \in dirs
        /\ verify_version_integrity(State, version_id).valid
        /\ verify_version_integrity(State, info[version_id].parent_id).valid
        /\ get_version_data(State, version_id, None).result.rows # <<>>
        /\ get_version_data(State, info[version_id].parent_id, None).result.rows # <<>>

\* C18: a clean_old_versions call, whatever it deactivates, leaves the
\* version history and the data every version loads as they were, and leaves
\* what latest resolution returns as it was, for the registry's pointer and
\* for DatabaseOperations.get_latest_version alike.
C18_DeactivationKeepsLatest ==
    [][last'.op = "clean_old_versions" =>
          /\ get_version_history(State)' = get_version_history(State)
          /\ \A version_id \in dirs :
                get_version_data(State, version_id, None)'
                    = get_version_data(State, version_id, None)
          /\ get_latest_version(State)' = get_latest_version(State)
          /\ db_get_latest_version(State)' = db_get_latest_version(State)]_vars

\* The ids of the versions before the i-th, from the nearest to the first.
IdsBefore(reg, i) == [k \in 1..(i - 1) |-> reg.versions[i - k].id]

\* C19: ancestors(v) is empty for a version without a parent; a version
\* created without a parent argument on a registry that holds versions has
\* the previous latest version followed by that version's ancestors; and the
\* fourth version of a chain built by successive create_version calls has
\* exactly the three earlier ids, nearest first.
C19_AncestorsFollowParents ==
    [][/\ \A i \in DOMAIN registry'.versions :
             registry'.versions[i].parent_id = None =>
                 ancestors(registry', registry'.versions[i].id)
                     = [result |-> <<>>, raised |-> None, hops |-> 0]
       /\ last'.op = "create_version" /\ last'.args.parent_version_id = None =>
             /\ ancestors(registry', last'.result).raised = None
             /\ ancestors(registry', last'.result).result =
                   IF registry.versions = <<>> THEN <<>>
                   ELSE <<get_latest_version(State)>>
                        \o ancestors(registry, get_latest_version(State)).result
             /\ (\A i \in DOMAIN registry.versions :
                     ancestors(registry, registry.versions[i].id).result
                         = IdsBefore(registry, i))
                => ancestors(registry', last'.result).result
                       = IdsBefore(registry', Len(registry'.versions))]_vars

\* The fourth version of a chain built by create_version calls without a
\* parent argument has its three ancestors, nearest first.
C19_Witness ==
    /\ last.op = "create_version"
    /\ Len(registry.versions) = 4
    /\ \A i \in DOMAIN registry.versions :
          ancestors(registry, registry.versions[i].id).result = IdsBefore(registry, i)
    /\ ancestors(registry, last.result).result
          = <<registry.versions[3].id, registry.versions[2].id, registry.versions[1].id>>

\* The id reached from this one after k hops along the parent pointers, None
\* when the pointers end before.
RECURSIVE Hop(_, _, _)
Hop(reg, id, k) ==
    IF k = 0 \/ id = None THEN id
    ELSE LET i == FindVersion(reg, id)
         IN  Hop(reg, IF i = 0 THEN None ELSE reg.versions[i].parent_id, k - 1)

\* Some version reached from this one comes back to itself.
CycleReachable(reg, id) ==
    \E k \in 0..Len(reg.versions), m \in 1..Len(reg.versions) :
        /\ Hop(reg, id, k) # None
        /\ Hop(reg, Hop(reg, id, k), m) = Hop(reg, id, k)

\* C20: ancestors(v) ends after at most as many hops as there are versions,
\* and it raises LineageCycleError exactly when a parent cycle is reachable
\* from v.
C20_AncestorsEndsOnCycles ==
    \A i \in DOMAIN registry.versions :
        LET walk == ancestors(registry, registry.versions[i].id)
        IN  /\ walk.hops <= Len(registry.versions)
            /\ walk.raised \in {None, "LineageCycleError"}
            /\ walk.raised = "LineageCycleError"
                  <=> CycleReachable(registry, registry.versions[i].id)

\* The parent of a version has been pointed at its descendant, and the walk
\* from a third version runs into the cycle.
C20_Witness ==
    /\ last.op = "rewrite_parent"
    /\ \E i \in DOMAIN registry.versions :
          /\ ancestors(registry, registry.versions[i].id).raised = "LineageCycleError"
          /\ ancestors(registry, registry.versions[i].id).hops >= 2
          /\ Hop(registry, registry.versions[i].id, 2) # registry.versions[i].id
    /\ \E i \in DOMAIN registry.versions :
          ancestors(registry, registry.versions[i].id).raised = None

\* C21: a writer's save puts into the document the registry that writer
\* loaded, with its own update, and nothing else: a version or descriptor
\* another writer saved in between is no longer in the document.
C21_LastWriteWins ==
    [][\A p \in Procs :
          /\ procs[p].pc = "dump"
          /\ procs'[p].pc \in {"info", "idle"}
          /\ document' = "parsable"
          => /\ registry' = procs[p].registry
             /\ \A i \in DOMAIN registry.versions :
                   FindVersion(procs[p].registry, registry.versions[i].id) = 0
                   => FindVersion(registry', registry.versions[i].id) = 0]_vars

\* Two add_data_to_version calls on two different versions have both
\* returned, and the registry document has the descriptor of one of them only.
C21_Witness ==
    /\ document = "parsable"
    /\ \A p \in Procs : procs[p].pc = "idle"
    /\ \E v, w \in RegistryIds(registry) :
          /\ v # w
          /\ v \in DOMAIN info /\ w \in DOMAIN info
          /\ info[v].data_files # <<>>
          /\ info[w].data_files # <<>>
          /\ registry.versions[FindVersion(registry, v)].data_files = <<>>
          /\ registry.versions[FindVersion(registry, w)].data_files # <<>>

\* C22: at every instant of a create_version or add_data_to_version the
\* registry document on disk is complete and parsable, and a
\* get_version_history beside a writer never fails on an empty or partly
\* written document.
C22_DocumentAlwaysComplete ==
    /\ (\E p \in Procs : procs[p].op \in {"create_version", "add_data_to_version"})
          => document = "parsable"
    /\ last.op = "get_version_history" => last.raised = None

\* C23: no initialization replaces a registry document that holds versions.
C23_InitNeverReplacesVersions ==
    [][\A p \in Procs :
          /\ procs[p].op = "init"
          /\ procs[p].pc = "open"
          /\ procs'[p].pc = "dump"
          => ~(document = "parsable" /\ registry.versions # <<>>)]_vars

C24_EveryArtifactVerifies ==
    \A version_id \in dirs :
        LET report == verify_version_integrity(State, version_id)
        IN  /\ report.valid
            /\ \A i \in DOMAIN report.details : report.details[i].status = "valid"

\* C25: the latest pointer is null exactly when the registry has no
\* versions and is otherwise the id of the last version of the list; a step
\* changes it only when it creates a version (create_version, also as called
\* by the pipeline), never when it adds data, loads, lists or verifies.
C25_LatestIsNewestVersion ==
    [][/\ get_latest_version(State)' = None <=> get_version_history(State)' = <<>>
       /\ get_version_history(State)' # <<>> =>
             get_latest_version(State)' = Newest(registry').id
       /\ get_latest_version(State)' # get_latest_version(State) =>
             /\ last'.op \in {"create_version", "store_in_database"}
             /\ Len(registry'.versions) = Len(registry.versions) + 1
       /\ last'.op \in {"add_data_to_version", "get_version_data",
                        "get_version_history", "get_latest_version",
                        "verify_version_integrity"} =>
             get_latest_version(State)' = get_latest_version(State)]_vars

\* Data has been added to an older version and the pointer is at the newest.
C25_Witness ==
    /\ last.op = "add_data_to_version"
    /\ last.result # None
    /\ Len(registry.versions) >= 2
    /\ last.args.version_id # get_latest_version(State)
    /\ get_latest_version(State) = Newest(registry).id

\* C27: get_version_data and verify_version_integrity called with the id of
\* no version surface the bad identifier to the caller: they raise (for
\* verify_version_integrity a report that carries the error counts as well);
\* they do not return a default value.
C27_UnknownVersionIsSurfaced ==
    [][/\ last'.op = "get_version_data" /\ last'.args.version_id \notin dirs =>
             last'.raised # None
       /\ last'.op = "verify_version_integrity" /\ last'.args.version_id \notin dirs =>
             \/ last'.raised # None
             \/ "error" \in DOMAIN last'.result]_vars

\* C28: clean_old_versions(days_to_keep) sets is_active to 0 on exactly the
\* active versions created before the cutoff and returns their number; it
\* deletes no version row and no weather record; called again at once, it
\* deactivates nothing and returns 0.
C28_CleanDeactivatesExactlyOld ==
    [][last'.op = "clean_old_versions" /\ calls' # calls =>
          LET days_to_keep == last'.args.days_to_keep
              cutoff == clock - days_to_keep * SecondsPerDay
              old == {i \in DOMAIN db_versions :
                         /\ db_versions[i].is_active = 1
                         /\ db_versions[i].created_at < cutoff}
              again == clean_old_versions(State', clock', days_to_keep)
          IN  /\ DOMAIN db_versions' = DOMAIN db_versions
              /\ \A i \in DOMAIN db_versions :
                    db_versions'[i] = IF i \in old
                                      THEN [db_versions[i] EXCEPT !.is_active = 0]
                                      ELSE db_versions[i]
              /\ last'.result = Cardinality(old)
              /\ weather' = weather
              /\ again.result = 0
              /\ again.s = State']_vars

\* A call that deactivated versions and left a newer one active, with weather
\* records in the table.
C28_Witness ==
    /\ last.op = "clean_old_versions"
    /\ last.result >= 1
    /\ \E i \in DOMAIN db_versions : db_versions[i].is_active = 1
    /\ \E i \in DOMAIN db_versions : db_versions[i].is_active = 0
    /\ weather # <<>>

\* C29: prune_old_data(days_to_keep) deletes exactly the weather records
\* observed before the cutoff and returns their number as deleted_records;
\* the newer weather records, every version row and every daily statistic
\* stay in place.
C29_PruneDeletesExactlyOld ==
    [][last'.op = "prune_old_data" /\ calls' # calls =>
          LET cutoff == clock - last'.args.days_to_keep * SecondsPerDay
              old == {i \in DOMAIN weather : weather[i].timestamp < cutoff}
              newer == DOMAIN weather \ old
          IN  /\ {weather'[j] : j \in DOMAIN weather'} = {weather[i] : i \in newer}
              /\ Len(weather') = Cardinality(newer)
              /\ \A i, j \in newer :
                    i < j => \E k, l \in DOMAIN weather' :
                                k < l /\ weather'[k] = weather[i] /\ weather'[l] = weather[j]
              /\ last'.result = [deleted_records |-> Cardinality(old)]
              /\ db_versions' = db_versions
              /\ daily_weather_stats' = daily_weather_stats]_vars

\* A call that deleted records and left newer ones, with versions and daily
\* statistics in the database.
C29_Witness ==
    /\ last.op = "prune_old_data"
    /\ last.result.deleted_records >= 1
    /\ weather # <<>>
    /\ db_versions # <<>>
    /\ daily_weather_stats # <<>>

\* C30: when _store_in_database has returned a version id, the version it
\* added to the registry holds the processed_weather artifact of the run in
\* its data_files.
C30_StoredBatchIsAttached ==
    last.op = "store_in_database" /\ last.result # None =>
        /\ registry.versions # <<>>
        /\ \E i \in DOMAIN Newest(registry).data_files :
              Newest(registry).data_files[i].data_type = "processed_weather"

\* C31: the relational store mirrors the registry: every version of the
\* registry document has exactly one data_versions row with its identifier
\* and name, and every data_versions row is the row of a registry version.
C31_StoreMirrorsRegistry ==
    /\ \A i \in DOMAIN registry.versions :
          Cardinality({j \in DOMAIN db_versions :
                          /\ db_versions[j].id = registry.versions[i].id
                          /\ db_versions[j].version_name = registry.versions[i].name}) = 1
    /\ \A j \in DOMAIN db_versions : db_versions[j].id \in RegistryIds(registry)

\* C32: with a single writer, after every completed create_version or
\* add_data_to_version the version_info.json of each version's directory
\* equals the version's record in the registry document, so the descriptors
\* verify_version_integrity and get_version_data read are the registry's.
C32_InfoEqualsRegistryRecord ==
    /\ DOMAIN info = RegistryIds(registry)
    /\ dirs = RegistryIds(registry)
    /\ \A i \in DOMAIN registry.versions :
          info[registry.versions[i].id] = registry.versions[i]

\* A version with a descriptor, after an add_data_to_version to a registry
\* of two versions.
C32_Witness ==
    /\ last.op = "add_data_to_version"
    /\ last.result # None
    /\ Len(registry.versions) >= 2
    /\ info[last.args.version_id].data_files # <<>>

\* C33: a successful add_data_to_version(v, ...) appends exactly one
\* descriptor to v's data_files; the record of every other version and the
\* order of the versions stay as they were, so a descriptor never shows up in
\* the list of a version it was not attached to.
C33_AddTouchesOneVersion ==
    [][last'.op = "add_data_to_version" /\ calls' # calls /\ last'.result # None =>
          LET v == FindVersion(registry, last'.args.version_id)
          IN  /\ v # 0
              /\ DOMAIN registry'.versions = DOMAIN registry.versions
              /\ \A i \in DOMAIN registry.versions :
                    IF i = v
                    THEN /\ Len(registry'.versions[i].data_files)
                               = Len(registry.versions[i].data_files) + 1
                         /\ IsPrefix(registry.versions[i].data_files,
                                     registry'.versions[i].data_files)
                         /\ [registry'.versions[i] EXCEPT !.data_files = <<>>]
                               = [registry.versions[i] EXCEPT !.data_files = <<>>]
                    ELSE registry'.versions[i] = registry.versions[i]]_vars

\* An add_data_to_version to one of two versions, the other one holding a
\* descriptor of its own.
C33_Witness ==
    /\ last.op = "add_data_to_version"
    /\ last.result # None
    /\ \E i, j \in DOMAIN registry.versions :
          /\ i # j
          /\ registry.versions[i].id = last.args.version_id
          /\ registry.versions[i].data_files # <<>>
          /\ registry.versions[j].data_files # <<>>

\* C34: when create_version raises at any step, the registry document, the
\* version directories and the relational store are as they were before the
\* call: nothing of the version the call was creating is left in them.
C34_FailedCreateLeavesNoTrace ==
    [][\A p \in Procs :
          /\ procs[p].op = "create_version"
          /\ procs'[p].pc = "idle"
          /\ last'.raised # None
          => LET version_id == procs[p].version_id
             IN  /\ version_id \notin dirs'
                 /\ version_id \notin DOMAIN info'
                 /\ FindVersion(registry', version_id) = 0
                 /\ document' = "parsable"]_vars

\* How many entries of a report's details carry one of the given statuses.
CountStatus(report, statuses) ==
    Cardinality({i \in DOMAIN report.details : report.details[i].status \in statuses})

\* C35: in every report of verify_version_integrity for an existing version,
\* files_checked is the number of the version's descriptors and the sum of
\* files_valid, files_invalid and missing_files: each descriptor is counted
\* in exactly one of the three.
C35_CountersPartitionDescriptors ==
    \A version_id \in dirs :
        LET report == verify_version_integrity(State, version_id)
            version == registry.versions[FindVersion(registry, version_id)]
        IN  /\ report.files_checked = Len(version.data_files)
            /\ report.files_checked =
                  report.files_valid + report.files_invalid + report.missing_files
            /\ report.files_valid = CountStatus(report, {"valid"})
            /\ report.files_invalid = CountStatus(report, {"invalid", "error"})
            /\ report.missing_files = CountStatus(report, {"missing"})

\* A version whose report counts descriptors under more than one counter.
C35_Witness ==
    \E version_id \in dirs :
        LET report == verify_version_integrity(State, version_id)
        IN  /\ report.files_checked >= 2
            /\ report.files_valid < report.files_checked
            /\ report.files_invalid < report.files_checked
            /\ report.missing_files < report.files_checked

\* The calls that only read.
Readers ==
    {"get_version_data", "get_version_history", "get_latest_version",
     "verify_version_integrity"}

\* C36: get_version_data, get_version_history, get_latest_version and
\* verify_version_integrity leave the registry document, every
\* version_info.json and every artifact file as they were, whatever they
\* return: also when an artifact is missing or invalid or the version unknown.
C36_ReadersChangeNothing ==
    [][last'.op \in Readers /\ calls' # calls =>
          /\ registry' = registry
          /\ document' = document
          /\ info' = info
          /\ files' = files
          /\ dirs' = dirs]_vars

\* A verify_version_integrity that reported a missing artifact.
C36_Witness ==
    /\ last.op = "verify_version_integrity"
    /\ "missing_files" \in DOMAIN last.result
    /\ last.result.missing_files >= 1
    /\ info[last.args.version_id].data_files # <<>>

\* C37: after any sequence of store_weather_data calls the weather table holds
\* at most one record for a (city, timestamp), also when one batch holds the
\* same (city, timestamp) more than once.
C37_OneRecordPerCityAndTimestamp ==
    \A i, j \in DOMAIN weather :
        /\ weather[i].city_id = weather[j].city_id
        /\ weather[i].timestamp = weather[j].timestamp
        => i = j

\* C38: the count store_weather_data returns is the number of records the
\* call added to the weather table, also when a record of the batch raises
\* and the rollback drops earlier records of the batch not yet committed.
C38_CountIsRecordsAdded ==
    [][last'.op = "store_weather_data" /\ calls' # calls =>
          last'.result = Len(weather') - Len(weather)]_vars

\* The times a processed file can carry: a second for every tick, two for
\* every job that found a file.
FileTimes == 0..(3 * MaxCalls)

\* C39: every CSV file written to the processed directory, also one written
\* while a store_data run is under way, is selected by get_new_files in some
\* later run.
C39_EveryFileIsSelected ==
    \A f \in FileTimes : (f \in processed_files) ~> (f \in scheduler.seen)

====
